---- MODULE Spec2Model ----
(***************************************************************************)
(* Activity state machine, orchestration callback, metrics collector,    *)
(* OTLP exporter and export cycle of the vibe-kanban tracker background    *)
(* script.                                                                 *)
(*                                                                         *)
(* Time is the value of Date.now(); one handler runs at one instant.       *)
(* Operators that model code take and return a "world" record w holding    *)
(* the objects' fields, so that a handler is the composition of the calls  *)
(* it makes.                                                               *)
(***************************************************************************)
EXTENDS Integers, Sequences, FiniteSets, TLC

(* ------------------------------ bounds --------------------------------- *)
\* Date.now() runs from 0 to MaxTime
MaxTime == 2
\* idle timeout handed to the StateMachine constructor, in time units
IdleTimeout == 1
\* events are delivered while fewer than MaxRecords records are queued
MaxRecords == 2
\* and while fewer than MaxPeriods active periods have been completed
MaxPeriods == 2
\* the collector specification performs at most MaxOps operations
MaxOps == 3
\* the collector specification starts Margin records below the queue bound
Margin == 1
\* the export specification records at most MaxMade records,
MaxMade == 3
\* starts at most MaxCycles export cycles
MaxCycles == 3
\* and lets the background script die at most MaxCrashes times
MaxCrashes == 1
\* the configuration specification handles at most MaxSaves SAVE_CONFIG
MaxSaves == 1

(* ------------------------- program constants --------------------------- *)
maxQueueSize == 1000

null == "null"
\* currentRoute: ParsedRoute | null
nullRoute == [type |-> "null"]
\* number | null  (activeStateStartTime, currentViewStartTime)
nullTime == -1
\* StoredState | null  (StorageManager.state, the stored data)
nullState == [version |-> null]
\* the handle of no timer  (StateMachine.idleCheckInterval = null)
nullHandle == 0
IDLE_CHECK_INTERVAL_MS == 5000

(* ------------------------------ routes --------------------------------- *)
taskDetailWithDiffs ==
  [type |-> "task_detail", workspaceId |-> null, projectId |-> "project1",
   taskId |-> "task1", view |-> "diffs"]
taskBoard ==
  [type |-> "task_board", workspaceId |-> null, projectId |-> "project1",
   taskId |-> null, view |-> null]

Routes == {taskDetailWithDiffs, taskBoard}

StateEventTypes == {"FOCUS", "BLUR", "ACTIVITY", "IDLE_TIMEOUT"}

VARIABLES
  state,                 \* StateMachine.state : StateContext
  idleTimeoutMs,         \* StateMachine.idleTimeoutMs
  activeStateStartTime,  \* index.ts module variable
  currentViewStartTime,  \* index.ts module variable
  currentView,           \* index.ts module variable
  machineId,             \* index.ts module variable
  metrics,               \* MetricsCollector.metrics
  now,                   \* Date.now()
  calls,                 \* observer invocations made by the last operation
  recorded,              \* the "Metric recorded" log since the last flush
  flushed,               \* value returned by the last flush()
  lastOp,                \* the operation that produced the current state
  enteredActiveAt,       \* history: time of the latest entry into active
  periods,               \* history: completed maximal active periods
  routelessExit,         \* history: active was left with no route
  activityAt,            \* history: time of the latest ACTIVITY received in
                         \* active, in the active period that is current or
                         \* was ended by the idle timeout
  ops,                   \* history: operations done (collector specification)
  isInitialized,         \* index.ts module variable
  pendingMetrics,        \* StorageManager.state.pendingMetrics
  storage,               \* browser.storage.local: what has been persisted
  writes,                \* storage.local.set calls still to complete, in order
  cycles,                \* exportMetrics() invocations suspended at an await
  xp,                    \* one OTelExporter.export() call
  delivered,             \* history: values of the records of the batches
                         \* that received a 2xx response, in order
  made,                  \* history: records recorded (export specification)
  started,               \* history: export cycles started
  crashes,               \* history: times the background script died
  smState,               \* StorageManager.state (the export specification
                         \* keeps its pendingMetrics field in pendingMetrics)
  exporterConfig,        \* OTelExporter.config
  timers,                \* the interval timers that are set
  idleCheckInterval,     \* StateMachine.idleCheckInterval
  lastCall,              \* throttle: time of the latest invocation of fn
  timeoutId,             \* throttle: handle of the pending timeout
  invoked                \* history: the times at which fn was invoked

vars == <<state, idleTimeoutMs, activeStateStartTime, currentViewStartTime,
          currentView, machineId, metrics, now, calls, recorded, flushed,
          lastOp, enteredActiveAt, periods, routelessExit,
          activityAt, ops, isInitialized, pendingMetrics, storage, writes,
          cycles, xp, delivered, made, started, crashes, smState,
          exporterConfig, timers, idleCheckInterval, lastCall, timeoutId,
          invoked>>

\* the exporter and the histories of the export specification
xvars == <<xp, delivered, made, started, crashes>>

\* the fields the code reads and writes, as one record
W ==
  [state |-> state, idleTimeoutMs |-> idleTimeoutMs,
   activeStateStartTime |-> activeStateStartTime,
   currentViewStartTime |-> currentViewStartTime,
   currentView |-> currentView, machineId |-> machineId,
   metrics |-> metrics, now |-> now, calls |-> <<>>,
   recorded |-> recorded, flushed |-> flushed,
   isInitialized |-> isInitialized, pendingMetrics |-> pendingMetrics,
   storage |-> storage, writes |-> writes, cycles |-> cycles,
   smState |-> smState, exporterConfig |-> exporterConfig,
   timers |-> timers, idleCheckInterval |-> idleCheckInterval,
   lastCall |-> lastCall, timeoutId |-> timeoutId, invoked |-> invoked]

Commit(w) ==
  /\ state' = w.state
  /\ idleTimeoutMs' = w.idleTimeoutMs
  /\ activeStateStartTime' = w.activeStateStartTime
  /\ currentViewStartTime' = w.currentViewStartTime
  /\ currentView' = w.currentView
  /\ machineId' = w.machineId
  /\ metrics' = w.metrics
  /\ now' = w.now
  /\ calls' = w.calls
  /\ recorded' = w.recorded
  /\ flushed' = w.flushed
  /\ isInitialized' = w.isInitialized
  /\ pendingMetrics' = w.pendingMetrics
  /\ storage' = w.storage
  /\ writes' = w.writes
  /\ cycles' = w.cycles
  /\ smState' = w.smState
  /\ exporterConfig' = w.exporterConfig
  /\ timers' = w.timers
  /\ idleCheckInterval' = w.idleCheckInterval
  /\ lastCall' = w.lastCall
  /\ timeoutId' = w.timeoutId
  /\ invoked' = w.invoked

(* ------------------------- MetricsCollector ---------------------------- *)
\* Array.prototype.slice(-n) for n > 0
sliceLast(s, n) ==
  IF Len(s) <= n THEN s ELSE SubSeq(s, Len(s) - n + 1, Len(s))

addMetric_dropNewest(w, metric) ==
  LET pushed == Append(w.metrics, metric)
  IN [w EXCEPT !.metrics = IF Len(pushed) > maxQueueSize
                             THEN SubSeq(pushed, 1, maxQueueSize)
                             ELSE pushed,
               !.recorded = Append(@, metric)]

addMetric(w, metric) ==
  LET pushed == Append(w.metrics, metric)
  IN [w EXCEPT !.metrics = IF Len(pushed) > maxQueueSize
                             THEN sliceLast(pushed, maxQueueSize)
                             ELSE pushed,
               !.recorded = Append(@, metric)]

buildRouteAttributes(route, mid) ==
  LET keys == {"machine_id", "route_type"}
              \cup (IF route.workspaceId # null THEN {"workspace_id"} ELSE {})
              \cup (IF route.projectId # null THEN {"project_id"} ELSE {})
              \cup (IF route.taskId # null THEN {"task_id"} ELSE {})
              \cup (IF route.view # null THEN {"view"} ELSE {})
  IN [k \in keys |->
        CASE k = "machine_id" -> mid
          [] k = "route_type" -> route.type
          [] k = "workspace_id" -> route.workspaceId
          [] k = "project_id" -> route.projectId
          [] k = "task_id" -> route.taskId
          [] k = "view" -> route.view]

recordActiveTime(w, durationMs, route, mid) ==
  addMetric(w, [name |-> "vibe_kanban.active_time.duration_ms",
                type |-> "gauge", value |-> durationMs, timestamp |-> w.now,
                attributes |-> buildRouteAttributes(route, mid)])

recordHumanIntervention(w, route, mid) ==
  addMetric(w, [name |-> "vibe_kanban.human_intervention.count",
                type |-> "counter", value |-> 1, timestamp |-> w.now,
                attributes |-> buildRouteAttributes(route, mid)])

recordScroll(w, distance, mid) ==
  addMetric(
    addMetric(w, [name |-> "vibe_kanban.scroll.count",
                  type |-> "counter", value |-> 1, timestamp |-> w.now,
                  attributes |-> [k \in {"machine_id"} |-> mid]]),
    [name |-> "vibe_kanban.scroll.distance_px",
     type |-> "counter", value |-> distance, timestamp |-> w.now,
     attributes |-> [k \in {"machine_id"} |-> mid]])

recordViewDuration(w, view, durationMs, route, mid) ==
  addMetric(w, [name |-> "vibe_kanban.view.duration_ms",
                type |-> "gauge", value |-> durationMs, timestamp |-> w.now,
                attributes |->
                  [k \in DOMAIN buildRouteAttributes(route, mid) \cup {"view"} |->
                     IF k = "view" THEN view
                     ELSE buildRouteAttributes(route, mid)[k]]])

recordCharactersTyped(w, characterCount, route, mid) ==
  addMetric(w, [name |-> "vibe_kanban.characters_typed.count",
                type |-> "counter", value |-> characterCount,
                timestamp |-> w.now,
                attributes |-> buildRouteAttributes(route, mid)])

recordMessageSent(w, messageLength, route, mid) ==
  addMetric(
    addMetric(w, [name |-> "vibe_kanban.message_sent.count",
                  type |-> "counter", value |-> 1, timestamp |-> w.now,
                  attributes |-> buildRouteAttributes(route, mid)]),
    [name |-> "vibe_kanban.message_sent.length",
     type |-> "gauge", value |-> messageLength, timestamp |-> w.now,
     attributes |-> buildRouteAttributes(route, mid)])

flush_keep(w) ==
  [w EXCEPT !.flushed = w.metrics]

flush(w) ==
  [w EXCEPT !.flushed = w.metrics, !.metrics = <<>>]

restore_noSlice(w, batch) ==
  [w EXCEPT !.metrics = batch \o w.metrics]

restore_keepOldest(w, batch) ==
  LET combined == batch \o w.metrics
  IN [w EXCEPT !.metrics =
        IF Len(combined) <= maxQueueSize THEN combined
        ELSE SubSeq(combined, 1, maxQueueSize)]

restore_append(w, batch) ==
  [w EXCEPT !.metrics = sliceLast(w.metrics \o batch, maxQueueSize)]

restore(w, batch) ==
  [w EXCEPT !.metrics = sliceLast(batch \o w.metrics, maxQueueSize)]

(* ----------------------- orchestration callback ------------------------ *)
\* faulty variants of the steps of the callback, which the properties reject
leaveActive_sinceLastActivity(w, prev, context) ==
  IF prev = "active" /\ w.activeStateStartTime # nullTime
    THEN LET durationMs == w.now - context.lastActivityTime
             r == IF context.currentRoute # nullRoute
                    THEN recordActiveTime(w, durationMs, context.currentRoute,
                                          w.machineId)
                    ELSE w
         IN [r EXCEPT !.activeStateStartTime = nullTime]
    ELSE w

leaveActive_keepMarker(w, prev, context) ==
  IF prev = "active" /\ w.activeStateStartTime # nullTime
    THEN LET durationMs == w.now - w.activeStateStartTime
         IN IF context.currentRoute # nullRoute
              THEN [recordActiveTime(w, durationMs, context.currentRoute,
                                     w.machineId)
                      EXCEPT !.activeStateStartTime = nullTime]
              ELSE w
    ELSE w

\* "Record active time when leaving active state"
leaveActive(w, prev, context) ==
  IF prev = "active" /\ w.activeStateStartTime # nullTime
    THEN LET durationMs == w.now - w.activeStateStartTime
             r == IF context.currentRoute # nullRoute
                    THEN recordActiveTime(w, durationMs, context.currentRoute,
                                          w.machineId)
                    ELSE w
         IN [r EXCEPT !.activeStateStartTime = nullTime]
    ELSE w

enterActive_onFocusOnly(w, prev, next) ==
  IF next = "active" /\ prev = "unfocused"
    THEN [w EXCEPT !.activeStateStartTime = w.now]
    ELSE w

\* "Start tracking active time when entering active state"
enterActive(w, prev, next) ==
  IF next = "active"
    THEN [w EXCEPT !.activeStateStartTime = w.now]
    ELSE w

\* "Record view duration when state changes"
closeView_keepSession(w, context) ==
  IF w.currentViewStartTime # nullTime /\ w.currentView # null
     /\ context.currentRoute # nullRoute
    THEN recordViewDuration(w, w.currentView, w.now - w.currentViewStartTime,
                            context.currentRoute, w.machineId)
    ELSE w

closeView(w, context) ==
  IF w.currentViewStartTime # nullTime /\ w.currentView # null
     /\ context.currentRoute # nullRoute
    THEN LET viewDurationMs == w.now - w.currentViewStartTime
             r == recordViewDuration(w, w.currentView, viewDurationMs,
                                     context.currentRoute, w.machineId)
         IN [r EXCEPT !.currentViewStartTime = nullTime,
                      !.currentView = null]
    ELSE w

onStateChange(w, prev, next, context) ==
  closeView(enterActive(leaveActive(w, prev, context), prev, next), context)

(* ---------------------------- StateMachine ----------------------------- *)
nextStateOf_strict(prevState, event, lastActivityTime, t, timeout) ==
  CASE event.type = "FOCUS" ->
         IF prevState = "unfocused" THEN "active" ELSE prevState
    [] event.type = "BLUR" ->
         IF prevState = "active" \/ prevState = "idle"
           THEN "unfocused" ELSE prevState
    [] event.type = "ACTIVITY" ->
         IF prevState = "idle" THEN "active" ELSE prevState
    [] event.type = "IDLE_TIMEOUT" ->
         IF prevState = "active" /\ t - lastActivityTime > timeout
           THEN "idle" ELSE prevState
    [] event.type = "NAVIGATE" -> prevState

nextStateOf(prevState, event, lastActivityTime, t, timeout) ==
  CASE event.type = "FOCUS" ->
         IF prevState = "unfocused" THEN "active" ELSE prevState
    [] event.type = "BLUR" ->
         IF prevState = "active" \/ prevState = "idle"
           THEN "unfocused" ELSE prevState
    [] event.type = "ACTIVITY" ->
         IF prevState = "idle" THEN "active" ELSE prevState
    [] event.type = "IDLE_TIMEOUT" ->
         IF prevState = "active" /\ t - lastActivityTime >= timeout
           THEN "idle" ELSE prevState
    [] event.type = "NAVIGATE" -> prevState

lastActivityTimeOf_onChange(prevState, nextState, event, lastActivityTime, t) ==
  CASE event.type = "FOCUS" /\ prevState = "unfocused" -> t
    [] event.type = "ACTIVITY" /\ prevState = "idle" -> t
    [] OTHER -> lastActivityTime

lastActivityTimeOf(prevState, nextState, event, lastActivityTime, t) ==
  CASE event.type = "FOCUS" /\ prevState = "unfocused" -> t
    [] event.type = "ACTIVITY"
         /\ (prevState = "active" \/ nextState = "active") -> t
    [] OTHER -> lastActivityTime

currentRouteOf_untilBlur(event, currentRoute) ==
  CASE event.type = "NAVIGATE" -> event.route
    [] event.type = "BLUR" -> nullRoute
    [] OTHER -> currentRoute

currentRouteOf(event, currentRoute) ==
  IF event.type = "NAVIGATE" THEN event.route ELSE currentRoute

stateChanged_always(prevState, nextState) == TRUE

stateChanged(prevState, nextState) == nextState # prevState

transition(w, event) ==
  LET prevState == w.state.currentState
      nextState == nextStateOf(prevState, event, w.state.lastActivityTime,
                               w.now, w.idleTimeoutMs)
      s1 == [w.state EXCEPT
               !.lastActivityTime =
                  lastActivityTimeOf(prevState, nextState, event, @, w.now),
               !.currentRoute = currentRouteOf(event, @)]
  IN IF stateChanged(prevState, nextState)
       THEN LET s2 == [s1 EXCEPT !.currentState = nextState,
                                 !.lastStateChangeTime = w.now]
            IN onStateChange(
                 [w EXCEPT !.state = s2,
                           !.calls = Append(@, [prev |-> prevState,
                                                next |-> nextState,
                                                context |-> s2])],
                 prevState, nextState, s2)
       ELSE [w EXCEPT !.state = s1]

(* ------------------------- message handlers ---------------------------- *)
\* browser.runtime.onMessage, case 'NAVIGATION' with a route in the payload
handleNavigation_newRoute(w, route) ==
  LET w1 == transition(w, [type |-> "NAVIGATE", route |-> route])
      w2 == IF w1.currentViewStartTime # nullTime /\ w1.currentView # null
                /\ w1.state.currentRoute # nullRoute
              THEN recordViewDuration(w1, w1.currentView,
                     w1.now - w1.currentViewStartTime,
                     w1.state.currentRoute, w1.machineId)
              ELSE w1
  IN IF route.view = "diffs" \/ route.view = "preview"
       THEN [w2 EXCEPT !.currentView = route.view,
                       !.currentViewStartTime = w2.now]
       ELSE [w2 EXCEPT !.currentView = null,
                       !.currentViewStartTime = nullTime]

handleNavigation(w, route) ==
  LET w1 == IF w.currentViewStartTime # nullTime /\ w.currentView # null
                /\ w.state.currentRoute # nullRoute
              THEN recordViewDuration(w, w.currentView,
                     w.now - w.currentViewStartTime,
                     w.state.currentRoute, w.machineId)
              ELSE w
      w2 == transition(w1, [type |-> "NAVIGATE", route |-> route])
  IN IF route.view = "diffs" \/ route.view = "preview"
       THEN [w2 EXCEPT !.currentView = route.view,
                       !.currentViewStartTime = w2.now]
       ELSE [w2 EXCEPT !.currentView = null,
                       !.currentViewStartTime = nullTime]

\* the messages of the content script: the payload carries a route or none
ContentMessageTypes ==
  {"FOCUS", "BLUR", "ACTIVITY", "SCROLL", "NAVIGATION", "HUMAN_INTERVENTION",
   "TYPING", "MESSAGE_SENT"}

ContentMessages ==
  {[type |-> t, route |-> r, scrollPosition |-> 0 - 40, characterCount |-> 7,
    messageLength |-> 12] :
     t \in ContentMessageTypes, r \in Routes \cup {nullRoute}}

abs(n) == IF n < 0 THEN 0 - n ELSE n

\* "update route context if provided", in the order the listener makes the
\* calls: after the state event
routeAfter_ignored(w, type, route) == transition(w, [type |-> type])

routeAfter(w, type, route) ==
  LET v == transition(w, [type |-> type])
  IN IF route # nullRoute
       THEN transition(v, [type |-> "NAVIGATE", route |-> route])
       ELSE v

\* browser.runtime.onMessage for a message of the content script
onMessage(w, message) ==
  IF ~w.isInitialized THEN w
  ELSE
    LET route == message.route
    IN CASE message.type = "FOCUS" -> routeAfter(w, "FOCUS", route)
         [] message.type = "BLUR" -> transition(w, [type |-> "BLUR"])
         [] message.type = "ACTIVITY" -> routeAfter(w, "ACTIVITY", route)
         [] message.type = "SCROLL" ->
              recordScroll(routeAfter(w, "ACTIVITY", route),
                           abs(message.scrollPosition), w.machineId)
         [] message.type = "NAVIGATION" ->
              IF route # nullRoute THEN handleNavigation(w, route) ELSE w
         [] message.type = "HUMAN_INTERVENTION" ->
              LET v == routeAfter(w, "ACTIVITY", route)
              IN IF route # nullRoute
                   THEN recordHumanIntervention(v, route, w.machineId)
                   ELSE v
         [] message.type = "TYPING" ->
              LET v == routeAfter(w, "ACTIVITY", route)
              IN IF route # nullRoute
                   THEN recordCharactersTyped(v, message.characterCount,
                                              route, w.machineId)
                   ELSE v
         [] message.type = "MESSAGE_SENT" ->
              LET v == routeAfter(w, "ACTIVITY", route)
              IN IF route # nullRoute
                   THEN recordMessageSent(v, message.messageLength, route,
                                          w.machineId)
                   ELSE v

(* ------------------------------ history -------------------------------- *)
\* history variables, from the states before and after an operation;
\* activity: the operation is transition(ACTIVITY)
History(w, activity) ==
  LET entered == state.currentState # "active" /\ w.state.currentState = "active"
      left == state.currentState = "active" /\ w.state.currentState # "active"
  IN /\ enteredActiveAt' = IF entered THEN now ELSE enteredActiveAt
     /\ periods' = IF left
                     THEN Append(periods, [start |-> enteredActiveAt,
                                           end |-> now,
                                           to |-> w.state.currentState])
                     ELSE periods
     /\ activityAt' = CASE activity /\ state.currentState = "active" -> now
                         [] entered \/ w.state.currentState = "unfocused" -> nullTime
                         [] OTHER -> activityAt
     /\ routelessExit' = (routelessExit
                          \/ (left /\ w.state.currentRoute = nullRoute))

(* ------------- specification: machine, callback, collector ------------- *)
\* initialize() has completed on an empty store; nothing is being exported
Initialized ==
  /\ isInitialized = TRUE
  /\ pendingMetrics = <<>>
  /\ storage = [pendingMetrics |-> <<>>]
  /\ writes = <<>>
  /\ cycles = {}
  /\ xp = [pc |-> "idle"]
  /\ delivered = <<>>
  /\ made = 0
  /\ started = 0
  /\ crashes = 0
  /\ smState = nullState
  /\ exporterConfig = null
  /\ timers = {}
  /\ idleCheckInterval = nullHandle
  /\ lastCall = 0
  /\ timeoutId = nullHandle
  /\ invoked = <<>>

Init ==
  /\ state = [currentState |-> "unfocused", lastActivityTime |-> 0,
              lastStateChangeTime |-> 0, currentRoute |-> nullRoute]
  /\ idleTimeoutMs = IdleTimeout
  /\ activeStateStartTime = nullTime
  /\ currentViewStartTime = nullTime
  /\ currentView = null
  /\ machineId = "machine-1"
  /\ metrics = <<>>
  /\ now = 0
  /\ calls = <<>>
  /\ recorded = <<>>
  /\ flushed = <<>>
  /\ lastOp = [kind |-> "init"]
  /\ enteredActiveAt = nullTime
  /\ periods = <<>>
  /\ routelessExit = FALSE
  /\ activityAt = nullTime
  /\ ops = 0
  /\ Initialized

Driven == Len(metrics) < MaxRecords /\ Len(periods) < MaxPeriods

Tick ==
  /\ now < MaxTime
  /\ now' = now + 1
  /\ lastOp' = [kind |-> "tick"]
  /\ calls' = <<>>
  /\ UNCHANGED <<state, idleTimeoutMs, activeStateStartTime,
                 currentViewStartTime, currentView, machineId, metrics,
                 recorded, flushed, enteredActiveAt, periods,
                 routelessExit, activityAt, ops, isInitialized,
                 pendingMetrics, storage, writes, cycles, smState,
                 exporterConfig, timers, idleCheckInterval, lastCall,
                 timeoutId, invoked>>
  /\ UNCHANGED xvars

\* stateMachine.transition({type}) for the four state events
Transition ==
  /\ Driven
  /\ \E type \in StateEventTypes :
       LET w == transition(W, [type |-> type])
       IN /\ Commit(w)
          /\ History(w, type = "ACTIVITY")
          /\ lastOp' = [kind |-> "transition", type |-> type]
  /\ UNCHANGED ops
  /\ UNCHANGED xvars

\* stateMachine.transition({type: 'NAVIGATE', route})
Navigate ==
  /\ Driven
  /\ \E route \in Routes :
       LET w == transition(W, [type |-> "NAVIGATE", route |-> route])
       IN /\ Commit(w)
          /\ History(w, FALSE)
          /\ lastOp' = [kind |-> "transition", type |-> "NAVIGATE",
                        route |-> route]
  /\ UNCHANGED ops
  /\ UNCHANGED xvars

\* a NAVIGATION message from the content script
Navigation ==
  /\ Driven
  /\ \E route \in Routes :
       LET w == handleNavigation(W, route)
       IN /\ Commit(w)
          /\ History(w, FALSE)
          /\ lastOp' = [kind |-> "NAVIGATION", route |-> route]
  /\ UNCHANGED ops
  /\ UNCHANGED xvars

Next == Tick \/ Transition \/ Navigate \/ Navigation

Spec == Init /\ [][Next]_vars

(* --------------- specification: the collector on its own --------------- *)
\* the queue after n recordActiveTime(i, taskBoard, machineId) calls,
\* i = 1..n, made at time 0 on a new collector
Fill(n) ==
  [i \in 1..n |->
     [name |-> "vibe_kanban.active_time.duration_ms", type |-> "gauge",
      value |-> i, timestamp |-> 0,
      attributes |-> buildRouteAttributes(taskBoard, "machine-1")]]

\* a batch of n records handed to restore(), as the unit tests build it
Batch(n) ==
  [i \in 1..n |->
     [name |-> "old_metric", type |-> "counter", value |-> i,
      timestamp |-> 0, attributes |-> [k \in {} |-> null]]]

BatchSizes == {0, 2, maxQueueSize + 100}

RecordCalls ==
  {[m |-> "recordActiveTime", v |-> 5, route |-> taskDetailWithDiffs],
   [m |-> "recordHumanIntervention", v |-> 1, route |-> taskBoard],
   [m |-> "recordScroll", v |-> 40, route |-> nullRoute],
   [m |-> "recordViewDuration", v |-> 3, route |-> taskDetailWithDiffs],
   [m |-> "recordCharactersTyped", v |-> 7, route |-> taskBoard],
   [m |-> "recordMessageSent", v |-> 12, route |-> taskBoard]}

record(w, c) ==
  CASE c.m = "recordActiveTime" -> recordActiveTime(w, c.v, c.route, w.machineId)
    [] c.m = "recordHumanIntervention" ->
         recordHumanIntervention(w, c.route, w.machineId)
    [] c.m = "recordScroll" -> recordScroll(w, c.v, w.machineId)
    [] c.m = "recordViewDuration" ->
         recordViewDuration(w, "diffs", c.v, c.route, w.machineId)
    [] c.m = "recordCharactersTyped" ->
         recordCharactersTyped(w, c.v, c.route, w.machineId)
    [] c.m = "recordMessageSent" ->
         recordMessageSent(w, c.v, c.route, w.machineId)

InitMC ==
  /\ state = [currentState |-> "unfocused", lastActivityTime |-> 0,
              lastStateChangeTime |-> 0, currentRoute |-> nullRoute]
  /\ idleTimeoutMs = IdleTimeout
  /\ activeStateStartTime = nullTime
  /\ currentViewStartTime = nullTime
  /\ currentView = null
  /\ machineId = "machine-1"
  /\ \E n \in {0, maxQueueSize - Margin} :
       /\ metrics = Fill(n)
       /\ recorded = Fill(n)
  /\ now = 0
  /\ calls = <<>>
  /\ flushed = <<>>
  /\ lastOp = [kind |-> "init"]
  /\ enteredActiveAt = nullTime
  /\ periods = <<>>
  /\ routelessExit = FALSE
  /\ activityAt = nullTime
  /\ ops = 0
  /\ Initialized

MCUnchanged ==
  UNCHANGED <<enteredActiveAt, periods, routelessExit,
              activityAt, xp, delivered, made, started, crashes>>

\* one of the record*() methods
MCRecord ==
  /\ ops < MaxOps
  /\ \E c \in RecordCalls :
       /\ Commit(record(W, c))
       /\ lastOp' = [kind |-> "record", m |-> c.m, after |-> lastOp.kind]
  /\ ops' = ops + 1
  /\ MCUnchanged

\* flush(); the log of recorded metrics starts again
MCFlush ==
  /\ ops < MaxOps
  /\ Commit([flush(W) EXCEPT !.recorded = <<>>])
  /\ lastOp' = [kind |-> "flush", after |-> lastOp.kind]
  /\ ops' = ops + 1
  /\ MCUnchanged

\* restore(batch): a batch built by the caller, or the batch flush() returned
MCRestore ==
  /\ ops < MaxOps
  /\ \E batch \in {Batch(n) : n \in BatchSizes} \cup {flushed} :
       /\ Commit(restore(W, batch))
       /\ lastOp' = [kind |-> "restore", batch |-> batch]
  /\ ops' = ops + 1
  /\ MCUnchanged

NextMC == MCRecord \/ MCFlush \/ MCRestore

SpecMC == InitMC /\ [][NextMC]_vars

(* ----------------------------- OTelExporter ---------------------------- *)
MAX_RETRIES == 3
INITIAL_BACKOFF_MS == 1000

\* what one fetch() can settle to: a response with a status, or a rejection
Statuses == {200, 204, 400, 404, 429, 500, 503}

Settlements ==
  {[kind |-> "response", status |-> st] : st \in Statuses}
    \cup {[kind |-> "error"]}

\* Response.ok
ok(response) == response.status >= 200 /\ response.status <= 299

\* the test for HTTP errors that are not retried
nonRetryable_every4xx(response) ==
  response.status >= 400 /\ response.status < 500

nonRetryable(response) ==
  response.status >= 400 /\ response.status < 500 /\ response.status # 429

backoffMs_constant(attempt) == INITIAL_BACKOFF_MS

backoffMs(attempt) == INITIAL_BACKOFF_MS * 2 ^ attempt

\* the condition of the for loop
loopCondition_inclusive(attempt) == attempt <= MAX_RETRIES

loopCondition(attempt) == attempt < MAX_RETRIES

\* top of the loop body for the given attempt: fetch is called, or the loop
\* is over and export() returns false
iterate(x, attempt) ==
  IF loopCondition(attempt)
    THEN [x EXCEPT !.pc = "fetching", !.attempt = attempt]
    ELSE [x EXCEPT !.pc = "returned", !.attempt = attempt, !.result = FALSE]

\* export(metrics) up to its first await
export(batch) ==
  IF Len(batch) = 0
    THEN [pc |-> "returned", batch |-> batch, attempt |-> 0,
          result |-> TRUE, log |-> <<>>]
    ELSE iterate([pc |-> "called", batch |-> batch, attempt |-> 0,
                  result |-> FALSE, log |-> <<>>], 0)

\* the end of the loop body after a failed attempt: sleep, or go on
backoff(x) ==
  IF x.attempt < MAX_RETRIES - 1
    THEN [x EXCEPT !.pc = "sleeping",
                   !.log = Append(@, [ev |-> "sleep",
                                      ms |-> backoffMs(x.attempt)])]
    ELSE iterate(x, x.attempt + 1)

\* the awaited fetch settles
fetchSettled(x, settlement) ==
  LET y == [x EXCEPT !.log = Append(@, [ev |-> "attempt", n |-> x.attempt,
                                         settlement |-> settlement])]
  IN IF settlement.kind = "error" THEN backoff(y)
     ELSE IF ok(settlement)
       THEN [y EXCEPT !.pc = "returned", !.result = TRUE]
     ELSE IF nonRetryable(settlement)
       THEN [y EXCEPT !.pc = "returned", !.result = FALSE]
     ELSE backoff(y)

\* the awaited sleep is over
sleepDone(x) == iterate(x, x.attempt + 1)

IsAttempt(e) == e.ev = "attempt"

\* export() run to its return, the fetches settling as the sequence says
RECURSIVE exportRun(_, _)
exportRun(x, settlements) ==
  IF x.pc = "returned" THEN x
  ELSE IF x.pc = "sleeping" THEN exportRun(sleepDone(x), settlements)
  ELSE exportRun(fetchSettled(x, Head(settlements)), Tail(settlements))

(* ---------------- specification: one export() call -------------------- *)
XUnchanged ==
  UNCHANGED <<state, idleTimeoutMs, activeStateStartTime,
              currentViewStartTime, currentView, machineId, metrics, now,
              calls, recorded, flushed, enteredActiveAt, periods,
              routelessExit, activityAt, ops, isInitialized, pendingMetrics,
              storage, writes, cycles, delivered, made, started, crashes,
              smState, exporterConfig, timers, idleCheckInterval, lastCall,
                 timeoutId, invoked>>

\* export(metrics) is called with an empty batch or with two records
XCall ==
  /\ xp.pc = "idle"
  /\ \E batch \in {Fill(0), Fill(2)} :
       /\ xp' = export(batch)
       /\ lastOp' = [kind |-> "export", batch |-> batch]
  /\ XUnchanged

XFetchSettled ==
  /\ xp.pc = "fetching"
  /\ \E settlement \in Settlements :
       /\ xp' = fetchSettled(xp, settlement)
       /\ lastOp' = [kind |-> "fetchSettled"]
  /\ XUnchanged

XSleepDone ==
  /\ xp.pc = "sleeping"
  /\ xp' = sleepDone(xp)
  /\ lastOp' = [kind |-> "sleepDone"]
  /\ XUnchanged

NextX == XCall \/ XFetchSettled \/ XSleepDone

SpecX == Init /\ [][NextX]_vars

(* ------------------- StorageManager and exportMetrics ------------------ *)
\* StorageManager.save(): storage.local.set is called with the state as it
\* is now, and the invocation id of exportMetrics waits for it to complete
save(w, id) ==
  [w EXCEPT !.writes = Append(@, [cycle |-> id,
                                  pendingMetrics |-> w.pendingMetrics])]

savePendingMetrics(w, id, batch) ==
  save([w EXCEPT !.pendingMetrics = batch], id)

clearPendingMetrics(w, id) ==
  save([w EXCEPT !.pendingMetrics = <<>>], id)

\* the invocation c of exportMetrics goes on waiting, now at pc
suspend(w, c, pc) ==
  [w EXCEPT !.cycles = (@ \ {c}) \cup {[c EXCEPT !.pc = pc]}]

\* the invocation c of exportMetrics returns
return(w, c) == [w EXCEPT !.cycles = @ \ {c}]

\* exportMetrics(), called by the export timer, up to its first await
exportMetrics(w, id) ==
  IF ~w.isInitialized THEN w
  ELSE
    LET f == flush(w)
        c == [id |-> id, pc |-> "start", metrics |-> f.flushed]
    IN IF Len(f.flushed) = 0
         THEN clearPendingMetrics(suspend(f, c, "clearing"), id)
         ELSE savePendingMetrics(suspend(f, c, "saving"), id, f.flushed)

\* the oldest storage.local.set completes: the data is persisted, and the
\* invocation that awaited it goes on: to otelExporter.export(metrics)
\* after savePendingMetrics, to its end after clearPendingMetrics
setCompleted(w) ==
  LET wr == Head(w.writes)
      c == CHOOSE k \in w.cycles : k.id = wr.cycle
      v == [w EXCEPT !.storage = [pendingMetrics |-> wr.pendingMetrics],
                     !.writes = Tail(@)]
  IN IF c.pc = "saving" THEN suspend(v, c, "exporting") ELSE return(v, c)

\* the oldest storage.local.set is rejected: save() throws again, and so
\* do savePendingMetrics or clearPendingMetrics and the invocation of
\* exportMetrics that awaited them, which ends there
setRejected(w) ==
  LET wr == Head(w.writes)
      c == CHOOSE k \in w.cycles : k.id = wr.cycle
  IN return([w EXCEPT !.writes = Tail(@)], c)

\* faulty variants of the continuation of await otelExporter.export(metrics)
exportReturned_restoreAlways(w, c, success) ==
  IF success
    THEN restore(clearPendingMetrics(suspend(w, c, "clearing"), c.id),
                 c.metrics)
    ELSE restore(return(w, c), c.metrics)

exportReturned_restoreBehind(w, c, success) ==
  IF success
    THEN clearPendingMetrics(suspend(w, c, "clearing"), c.id)
    ELSE [return(w, c) EXCEPT
            !.metrics = sliceLast(w.metrics \o c.metrics, maxQueueSize)]

\* exportMetrics() from the return of otelExporter.export(metrics)
exportReturned(w, c, success) ==
  IF success
    THEN clearPendingMetrics(suspend(w, c, "clearing"), c.id)
    ELSE restore(return(w, c), c.metrics)

\* the background script is loaded: nothing of the previous run is left in
\* memory, and what it was waiting for is abandoned
scriptLoaded(w) ==
  [w EXCEPT !.isInitialized = FALSE, !.metrics = <<>>,
            !.pendingMetrics = <<>>, !.writes = <<>>, !.cycles = {},
            !.recorded = <<>>, !.flushed = <<>>, !.smState = nullState,
            !.exporterConfig = null, !.timers = {},
            !.idleCheckInterval = nullHandle]

\* initialize(): the stored state is loaded, the collector is created and
\* the stored pending metrics are restored into it, the timers are started
initialize(w) ==
  LET loaded == [w EXCEPT !.pendingMetrics = w.storage.pendingMetrics,
                          !.metrics = <<>>]
      restored == IF Len(loaded.pendingMetrics) > 0
                    THEN restore(loaded, loaded.pendingMetrics)
                    ELSE loaded
  IN [restored EXCEPT !.isInitialized = TRUE]

(* ------------- specification: export cycles and restarts -------------- *)
CUnchanged ==
  UNCHANGED <<enteredActiveAt, periods, routelessExit, activityAt, ops, xp>>

\* how the fetches of one export() call settle: a 2xx at once, a 4xx at
\* once, three transient failures
SettlementRuns ==
  {<<[kind |-> "response", status |-> 200]>>,
   <<[kind |-> "response", status |-> 404]>>,
   <<[kind |-> "response", status |-> 503], [kind |-> "error"],
     [kind |-> "response", status |-> 429]>>}

\* the values of the records of a batch
Values(batch) == [i \in DOMAIN batch |-> batch[i].value]

\* the script is loaded on a store that holds no pending metrics
InitC ==
  /\ state = [currentState |-> "unfocused", lastActivityTime |-> 0,
              lastStateChangeTime |-> 0, currentRoute |-> nullRoute]
  /\ idleTimeoutMs = IdleTimeout
  /\ activeStateStartTime = nullTime
  /\ currentViewStartTime = nullTime
  /\ currentView = null
  /\ machineId = "machine-1"
  /\ metrics = <<>>
  /\ now = 0
  /\ calls = <<>>
  /\ recorded = <<>>
  /\ flushed = <<>>
  /\ lastOp = [kind |-> "load"]
  /\ enteredActiveAt = nullTime
  /\ periods = <<>>
  /\ routelessExit = FALSE
  /\ activityAt = nullTime
  /\ ops = 0
  /\ isInitialized = FALSE
  /\ pendingMetrics = <<>>
  /\ storage = [pendingMetrics |-> <<>>]
  /\ writes = <<>>
  /\ cycles = {}
  /\ xp = [pc |-> "idle"]
  /\ delivered = <<>>
  /\ made = 0
  /\ started = 0
  /\ crashes = 0
  /\ smState = nullState
  /\ exporterConfig = null
  /\ timers = {}
  /\ idleCheckInterval = nullHandle
  /\ lastCall = 0
  /\ timeoutId = nullHandle
  /\ invoked = <<>>

CInitialize ==
  /\ ~isInitialized
  /\ Commit(initialize(W))
  /\ lastOp' = [kind |-> "initialize"]
  /\ UNCHANGED <<delivered, made, started, crashes>>
  /\ CUnchanged

\* a message handler records a metric; its value numbers the records in
\* the order of recording
CRecord ==
  /\ isInitialized
  /\ made < MaxMade
  /\ Commit(recordCharactersTyped(W, made + 1, taskBoard, machineId))
  /\ made' = made + 1
  /\ lastOp' = [kind |-> "record"]
  /\ UNCHANGED <<delivered, started, crashes>>
  /\ CUnchanged

\* the export timer fires
CExportMetrics ==
  /\ isInitialized
  /\ started < MaxCycles
  /\ Commit(exportMetrics(W, started + 1))
  /\ started' = started + 1
  /\ lastOp' = [kind |-> "exportMetrics", queue |-> metrics]
  /\ UNCHANGED <<delivered, made, crashes>>
  /\ CUnchanged

CSetCompleted ==
  /\ writes # <<>>
  /\ Commit(setCompleted(W))
  /\ lastOp' = [kind |-> "setCompleted", cycle |-> Head(writes).cycle]
  /\ UNCHANGED <<delivered, made, started, crashes>>
  /\ CUnchanged

\* otelExporter.export(metrics) returns to an invocation of exportMetrics
CExportReturned ==
  /\ \E c \in cycles : \E run \in SettlementRuns :
       /\ c.pc = "exporting"
       /\ LET x == exportRun(export(c.metrics), run)
          IN /\ Commit(exportReturned(W, c, x.result))
             /\ delivered' = IF x.result THEN delivered \o Values(c.metrics)
                             ELSE delivered
             /\ lastOp' = [kind |-> "exportReturned", cycle |-> c.id,
                           success |-> x.result, batch |-> c.metrics,
                           attempts |-> Len(SelectSeq(x.log, IsAttempt)),
                           queue |-> metrics]
  /\ UNCHANGED <<made, started, crashes>>
  /\ CUnchanged

\* the background script dies and is loaded again
CDie ==
  /\ crashes < MaxCrashes
  /\ Commit(scriptLoaded(W))
  /\ crashes' = crashes + 1
  /\ lastOp' = [kind |-> "load",
                delivering |-> {c.metrics : c \in {k \in cycles :
                                                     k.pc = "exporting"}}]
  /\ UNCHANGED <<delivered, made, started>>
  /\ CUnchanged

NextC ==
  \/ CInitialize \/ CRecord \/ CExportMetrics \/ CSetCompleted
  \/ CExportReturned \/ CDie

SpecC == InitC /\ [][NextC]_vars

\* the same with a store that may reject a write
CSetRejected ==
  /\ writes # <<>>
  /\ LET c == CHOOSE k \in cycles : k.id = Head(writes).cycle
     IN lastOp' = [kind |-> "setRejected", cycle |-> c.id, pc |-> c.pc,
                   batch |-> c.metrics]
  /\ Commit(setRejected(W))
  /\ UNCHANGED <<delivered, made, started, crashes>>
  /\ CUnchanged

NextS == NextC \/ CSetRejected

SpecS == InitC /\ [][NextS]_vars

(* --------------- specification: the message listener ------------------ *)
MUnchanged ==
  UNCHANGED <<enteredActiveAt, periods, routelessExit, activityAt, ops, xp,
              delivered, made, started, crashes>>

\* a message of the content script arrives
MMessage ==
  /\ Driven
  /\ \E message \in ContentMessages :
       /\ Commit(onMessage(W, message))
       /\ lastOp' = [kind |-> "message", message |-> message]
  /\ MUnchanged

\* the idle check finds the timeout elapsed
MIdleTimeout ==
  /\ state.currentState = "active"
  /\ now - state.lastActivityTime >= idleTimeoutMs
  /\ Commit(transition(W, [type |-> "IDLE_TIMEOUT"]))
  /\ lastOp' = [kind |-> "idleCheck"]
  /\ MUnchanged

NextM == Tick \/ MMessage \/ MIdleTimeout

SpecM == Init /\ [][NextM]_vars

\* the same with a content script whose FOCUS messages all carry a route;
\* of the messages that count as activity and record a counter, handled
\* alike, TYPING stands for HUMAN_INTERVENTION and MESSAGE_SENT
FMessages ==
  {m \in ContentMessages :
     /\ m.type = "FOCUS" => m.route # nullRoute
     /\ m.type \notin {"HUMAN_INTERVENTION", "MESSAGE_SENT"}}

FMessage ==
  /\ Driven
  /\ \E message \in FMessages :
       /\ Commit(onMessage(W, message))
       /\ lastOp' = [kind |-> "message", message |-> message]
  /\ MUnchanged

NextF == Tick \/ FMessage \/ MIdleTimeout

SpecF == Init /\ [][NextF]_vars

(* --------------------------- configuration ----------------------------- *)
OTEL_ENDPOINT == "http://localhost:4318"

\* the object spread {...a, ...b}
spread(a, b) ==
  [k \in DOMAIN a \cup DOMAIN b |-> IF k \in DOMAIN b THEN b[k] ELSE a[k]]

\* a stored state that holds the given configuration and no pending metrics
storedState(mid, timeout, endpoint, enabled) ==
  [version |-> 2, lastUpdated |-> 0,
   config |-> [machineId |-> mid, idleTimeoutMs |-> timeout,
               otelEndpoint |-> endpoint, enabled |-> enabled,
               sidebarOpen |-> FALSE],
   pendingMetrics |-> <<>>]

\* StorageManager.getConfig()
getConfig(w) == w.smState.config

\* the test of handleSaveConfig on config.machineId: a non-empty string
hasMachineId(config) ==
  "machineId" \in DOMAIN config /\ config.machineId # ""

\* handleSaveConfig(config) up to the await of storage.local.set in
\* StorageManager.save(): the state in memory holds the merged
\* configuration, the write is on its way (before: history field)
handleSaveConfig(w, config) ==
  LET v == [w EXCEPT !.smState.config = spread(@, config),
                     !.smState.lastUpdated = w.now]
  IN [v EXCEPT !.writes = Append(@, [handler |-> "SAVE_CONFIG",
                                     config |-> config,
                                     data |-> v.smState,
                                     before |-> getConfig(w)])]

\* handleSaveConfig from the await on: the write has succeeded (stored) and the
\* runtime machine id is updated, or it was rejected and the catch replies
saveConfigSettled(w, stored) ==
  LET wr == Head(w.writes)
      v == [w EXCEPT !.writes = Tail(@)]
  IN IF stored
       THEN LET u == [v EXCEPT !.storage = wr.data]
            IN IF hasMachineId(wr.config)
                 THEN [u EXCEPT !.machineId = wr.config.machineId,
                                !.exporterConfig.machineId =
                                   wr.config.machineId]
                 ELSE u
       ELSE v

\* the URL of an export attempt is built from the exporter's configuration
fetchEndpoint(w) == w.exporterConfig.endpoint

\* the callback of the idle check interval
idleCheck_late(w) ==
  IF w.state.currentState = "active"
       /\ w.now - w.state.lastActivityTime
            >= w.idleTimeoutMs + IDLE_CHECK_INTERVAL_MS
    THEN transition(w, [type |-> "IDLE_TIMEOUT"])
    ELSE w

idleCheck(w) ==
  IF w.state.currentState = "active"
       /\ w.now - w.state.lastActivityTime >= w.idleTimeoutMs
    THEN transition(w, [type |-> "IDLE_TIMEOUT"])
    ELSE w

(* ------------- specification: configuration at run time ---------------- *)
\* the partial configurations the options page sends
Partials ==
  {[enabled |-> FALSE], [enabled |-> TRUE], [machineId |-> "machine-2"],
   [machineId |-> ""], [idleTimeoutMs |-> IdleTimeout + 1],
   [otelEndpoint |-> "http://collector:4318"]}

GMessages ==
  {m \in ContentMessages :
     \/ m.type = "FOCUS" /\ m.route = taskBoard
     \/ m.type = "BLUR" /\ m.route = nullRoute
     \/ m.type = "TYPING" /\ m.route = taskBoard}

\* initialize() has completed on a store that holds a configuration
InitG ==
  /\ state = [currentState |-> "unfocused", lastActivityTime |-> 0,
              lastStateChangeTime |-> 0, currentRoute |-> nullRoute]
  /\ idleTimeoutMs = IdleTimeout
  /\ activeStateStartTime = nullTime
  /\ currentViewStartTime = nullTime
  /\ currentView = null
  /\ machineId = "machine-1"
  /\ metrics = <<>>
  /\ now = 0
  /\ calls = <<>>
  /\ recorded = <<>>
  /\ flushed = <<>>
  /\ lastOp = [kind |-> "init"]
  /\ enteredActiveAt = nullTime
  /\ periods = <<>>
  /\ routelessExit = FALSE
  /\ activityAt = nullTime
  /\ ops = 0
  /\ isInitialized = TRUE
  /\ pendingMetrics = <<>>
  /\ storage = storedState("machine-1", IdleTimeout, OTEL_ENDPOINT, TRUE)
  /\ writes = <<>>
  /\ cycles = {}
  /\ xp = [pc |-> "idle"]
  /\ delivered = <<>>
  /\ made = 0
  /\ started = 0
  /\ crashes = 0
  /\ smState = storedState("machine-1", IdleTimeout, OTEL_ENDPOINT, TRUE)
  /\ exporterConfig = [endpoint |-> OTEL_ENDPOINT,
                       serviceName |-> "vibe-kanban-tracker",
                       serviceVersion |-> "1.0.0",
                       machineId |-> "machine-1"]
  /\ timers = {}
  /\ idleCheckInterval = nullHandle
  /\ lastCall = 0
  /\ timeoutId = nullHandle
  /\ invoked = <<>>

GUnchanged ==
  UNCHANGED <<enteredActiveAt, periods, routelessExit, activityAt, xp,
              delivered, made, started, crashes>>

\* a SAVE_CONFIG message arrives, while no other is being handled
GSaveConfig ==
  /\ ops < MaxSaves
  /\ writes = <<>>
  /\ \E config \in Partials :
       /\ Commit(handleSaveConfig(W, config))
       /\ lastOp' = [kind |-> "SAVE_CONFIG", config |-> config]
  /\ ops' = ops + 1
  /\ GUnchanged

\* the write of the configuration succeeds or is rejected
GSaveConfigSettled ==
  /\ writes # <<>>
  /\ \E stored \in BOOLEAN :
       /\ Commit(saveConfigSettled(W, stored))
       /\ lastOp' = [kind |-> "saveConfigSettled", success |-> stored,
                     config |-> Head(writes).config,
                     before |-> Head(writes).before]
  /\ UNCHANGED ops
  /\ GUnchanged

GMessage ==
  /\ Driven
  /\ \E message \in GMessages :
       /\ Commit(onMessage(W, message))
       /\ lastOp' = [kind |-> "message", message |-> message]
  /\ UNCHANGED ops
  /\ GUnchanged

GIdleCheck ==
  /\ Commit(idleCheck(W))
  /\ lastOp' = [kind |-> "idleCheck"]
  /\ UNCHANGED ops
  /\ GUnchanged

\* an attempt of an export is sent
GFetch ==
  /\ lastOp' = [kind |-> "fetch", endpoint |-> fetchEndpoint(W)]
  /\ calls' = <<>>
  /\ UNCHANGED <<state, idleTimeoutMs, activeStateStartTime,
                 currentViewStartTime, currentView, machineId, metrics, now,
                 recorded, flushed, ops, isInitialized, pendingMetrics,
                 storage, writes, cycles, smState, exporterConfig, timers,
                 idleCheckInterval, lastCall, timeoutId,
                 invoked>>
  /\ GUnchanged

NextG ==
  \/ Tick \/ GSaveConfig \/ GSaveConfigSettled \/ GMessage \/ GIdleCheck
  \/ GFetch

SpecG == InitG /\ [][NextG]_vars

(* ------------------------ the idle check timer ------------------------- *)
\* the handle setInterval returns: one no running timer has
nextHandle(w) ==
  CHOOSE h \in 1..(Cardinality(w.timers) + 1) :
    \A t \in w.timers : t.id # h

\* setInterval(callback, IDLE_CHECK_INTERVAL_MS) (started: history field)
setInterval(w, h) ==
  [w EXCEPT !.timers = @ \cup {[id |-> h, started |-> w.now,
                                due |-> w.now + IDLE_CHECK_INTERVAL_MS]}]

clearInterval(w, h) == [w EXCEPT !.timers = {t \in @ : t.id # h}]

startIdleCheck_again(w) ==
  LET h == nextHandle(w)
  IN [setInterval(w, h) EXCEPT !.idleCheckInterval = h]

startIdleCheck(w) ==
  IF w.idleCheckInterval # nullHandle
    THEN w
    ELSE LET h == nextHandle(w)
         IN [setInterval(w, h) EXCEPT !.idleCheckInterval = h]

stopIdleCheck(w) ==
  IF w.idleCheckInterval # nullHandle
    THEN [clearInterval(w, w.idleCheckInterval)
            EXCEPT !.idleCheckInterval = nullHandle]
    ELSE w

\* the interval timer t fires: its callback runs, and it is due again one
\* interval later
timerFired(w, t) ==
  LET v == [w EXCEPT !.timers = (@ \ {t}) \cup
                        {[t EXCEPT !.due = @ + IDLE_CHECK_INTERVAL_MS]}]
  IN idleCheck(v)

(* ------------------------ loading the stored state --------------------- *)
STORAGE_VERSION == 2

IDLE_TIMEOUT_MS == 60000

\* what generateMachineId() returns at its first and its second call
GeneratedIds == <<"vibe-0000-0000-0000-0001", "vibe-0000-0000-0000-0002">>

getDefaultState(id, t) ==
  [version |-> STORAGE_VERSION, lastUpdated |-> t,
   config |-> [machineId |-> id, idleTimeoutMs |-> IDLE_TIMEOUT_MS,
               otelEndpoint |-> OTEL_ENDPOINT, enabled |-> TRUE,
               sidebarOpen |-> FALSE],
   pendingMetrics |-> <<>>]

migrate(oldState) ==
  LET v2 == IF oldState.version < 2
              THEN [oldState EXCEPT
                      !.config = spread(@, [sidebarOpen |-> FALSE]),
                      !.version = 2]
              ELSE oldState
  IN [v2 EXCEPT !.version = STORAGE_VERSION]

\* the catch of load(): the state in memory is a new default state
catchLoad_rethrow(w, id) == [w EXCEPT !.smState = nullState]

catchLoad(w, id) == [w EXCEPT !.smState = getDefaultState(id, w.now)]

\* save() inside load(): storage.local.set succeeds (io.set) or rejects,
\* and the rejection is caught by the catch of load()
saveInLoad(w, io, id) ==
  LET v == [w EXCEPT !.smState.lastUpdated = w.now]
  IN IF io.set THEN [v EXCEPT !.storage = v.smState] ELSE catchLoad(v, id)

\* load(): storage.local.get succeeds (io.get) or rejects
load(w, io) ==
  IF ~io.get
    THEN catchLoad(w, GeneratedIds[1])
    ELSE IF w.storage = nullState
      THEN saveInLoad([w EXCEPT !.smState =
                          getDefaultState(GeneratedIds[1], w.now)],
                      io, GeneratedIds[2])
      ELSE IF w.storage.version < STORAGE_VERSION
        THEN saveInLoad([w EXCEPT !.smState = migrate(w.storage)],
                        io, GeneratedIds[1])
        ELSE [w EXCEPT !.smState = w.storage]

getPendingMetrics(w) ==
  IF w.smState = nullState THEN <<>> ELSE w.smState.pendingMetrics

\* initialize() with load(): getConfig() throws when no state is loaded and
\* the catch of initialize() leaves the script uninitialized
startup(w, io) ==
  LET l == load(w, io)
  IN IF l.smState = nullState
       THEN l
       ELSE
         LET config == getConfig(l)
             a == [l EXCEPT
                     !.machineId = config.machineId,
                     !.idleTimeoutMs = config.idleTimeoutMs,
                     !.state = [currentState |-> "unfocused",
                                lastActivityTime |-> l.now,
                                lastStateChangeTime |-> l.now,
                                currentRoute |-> nullRoute],
                     !.metrics = <<>>]
             b == IF Len(getPendingMetrics(a)) > 0
                    THEN restore(a, getPendingMetrics(a))
                    ELSE a
             c == [b EXCEPT !.exporterConfig =
                     [endpoint |-> config.otelEndpoint,
                      serviceName |-> "vibe-kanban-tracker",
                      serviceVersion |-> "1.0.0",
                      machineId |-> config.machineId]]
         IN [startIdleCheck(c) EXCEPT !.isInitialized = TRUE]

\* handleGetConfig(): the state is loaded again and its configuration sent
handleGetConfig(w, io) == load(w, io)

(* ------------- specification: startup on a stored state ---------------- *)
\* the outcomes of storage.local.get and storage.local.set
IO == [get : BOOLEAN, set : BOOLEAN]

StoredConfigs ==
  [machineId : {"machine-1"}, idleTimeoutMs : {30000, IDLE_TIMEOUT_MS},
   otelEndpoint : {OTEL_ENDPOINT, "http://collector:4318"},
   enabled : BOOLEAN]

\* what the store holds when the script is loaded: nothing, the state an
\* installation of version 1 left, or a state of the current version
StoredData ==
  {nullState}
    \cup [version : {1}, lastUpdated : {0}, config : StoredConfigs,
          pendingMetrics : {Fill(0), Fill(MaxRecords)}]
    \cup {[d EXCEPT !.config = spread(@, [sidebarOpen |-> o])] :
            d \in [version : {STORAGE_VERSION}, lastUpdated : {0},
                   config : StoredConfigs,
                   pendingMetrics : {Fill(0), Fill(MaxRecords)}],
            o \in BOOLEAN}

InitL ==
  /\ state = [currentState |-> "unfocused", lastActivityTime |-> 0,
              lastStateChangeTime |-> 0, currentRoute |-> nullRoute]
  /\ idleTimeoutMs = IDLE_TIMEOUT_MS
  /\ activeStateStartTime = nullTime
  /\ currentViewStartTime = nullTime
  /\ currentView = null
  /\ machineId = "unknown-machine"
  /\ metrics = <<>>
  /\ now = 0
  /\ calls = <<>>
  /\ recorded = <<>>
  /\ flushed = <<>>
  /\ lastOp = [kind |-> "scriptLoaded"]
  /\ enteredActiveAt = nullTime
  /\ periods = <<>>
  /\ routelessExit = FALSE
  /\ activityAt = nullTime
  /\ ops = 0
  /\ isInitialized = FALSE
  /\ pendingMetrics = <<>>
  /\ storage \in StoredData
  /\ writes = <<>>
  /\ cycles = {}
  /\ xp = [pc |-> "idle"]
  /\ delivered = <<>>
  /\ made = 0
  /\ started = 0
  /\ crashes = 0
  /\ smState = nullState
  /\ exporterConfig = null
  /\ timers = {}
  /\ idleCheckInterval = nullHandle
  /\ lastCall = 0
  /\ timeoutId = nullHandle
  /\ invoked = <<>>

LInitialize ==
  /\ ~isInitialized
  /\ \E io \in IO :
       /\ Commit(startup(W, io))
       /\ lastOp' = [kind |-> "initialize", io |-> io, stored |-> storage]
  /\ UNCHANGED ops
  /\ GUnchanged

LGetConfig ==
  /\ ops < MaxSaves
  /\ \E io \in IO :
       /\ Commit(handleGetConfig(W, io))
       /\ lastOp' = [kind |-> "GET_CONFIG", io |-> io, stored |-> storage]
  /\ ops' = ops + 1
  /\ GUnchanged

\* the browser loads the background script anew
LScriptLoaded ==
  /\ isInitialized
  /\ crashes < MaxCrashes
  /\ Commit(scriptLoaded(W))
  /\ lastOp' = [kind |-> "scriptLoaded"]
  /\ crashes' = crashes + 1
  /\ UNCHANGED <<enteredActiveAt, periods, routelessExit, activityAt, ops,
                 xp, delivered, made, started>>

NextL == LInitialize \/ LGetConfig \/ LScriptLoaded

SpecL == InitL /\ [][NextL]_vars

(* ------------- specification: reloads at run time ---------------------- *)
\* GET_CONFIG from the options page, at any time after startup
RGetConfig ==
  /\ \E io \in IO :
       /\ Commit(handleGetConfig(W, io))
       /\ lastOp' = [kind |-> "GET_CONFIG", io |-> io, stored |-> storage]
  /\ UNCHANGED ops
  /\ GUnchanged

NextR == RGetConfig \/ GSaveConfig \/ GSaveConfigSettled \/ GMessage

SpecR == InitG /\ [][NextR]_vars

(* ------------- specification: the idle check timer --------------------- *)
\* time in milliseconds; the timers of the browser fire when they are due
Quantum == IDLE_CHECK_INTERVAL_MS \div 2
Horizon == MaxTime * IDLE_CHECK_INTERVAL_MS

Min(a, b) == IF a <= b THEN a ELSE b

InitI ==
  /\ state = [currentState |-> "unfocused", lastActivityTime |-> 0,
              lastStateChangeTime |-> 0, currentRoute |-> nullRoute]
  /\ idleTimeoutMs = IdleTimeout * 3000
  /\ activeStateStartTime = nullTime
  /\ currentViewStartTime = nullTime
  /\ currentView = null
  /\ machineId = "machine-1"
  /\ metrics = <<>>
  /\ now = 0
  /\ calls = <<>>
  /\ recorded = <<>>
  /\ flushed = <<>>
  /\ lastOp = [kind |-> "init"]
  /\ enteredActiveAt = nullTime
  /\ periods = <<>>
  /\ routelessExit = FALSE
  /\ activityAt = nullTime
  /\ ops = 0
  /\ isInitialized = TRUE
  /\ pendingMetrics = <<>>
  /\ storage = storedState("machine-1", IdleTimeout * 3000, OTEL_ENDPOINT,
                           TRUE)
  /\ writes = <<>>
  /\ cycles = {}
  /\ xp = [pc |-> "idle"]
  /\ delivered = <<>>
  /\ made = 0
  /\ started = 0
  /\ crashes = 0
  /\ smState = storedState("machine-1", IdleTimeout * 3000, OTEL_ENDPOINT,
                           TRUE)
  /\ exporterConfig = [endpoint |-> OTEL_ENDPOINT,
                       serviceName |-> "vibe-kanban-tracker",
                       serviceVersion |-> "1.0.0",
                       machineId |-> "machine-1"]
  /\ timers = {}
  /\ idleCheckInterval = nullHandle
  /\ lastCall = 0
  /\ timeoutId = nullHandle
  /\ invoked = <<>>

\* time passes, up to the instant the next timer is due
ITick ==
  /\ now < Horizon
  /\ \A t \in timers : t.due > now
  /\ LET next == now + Quantum
     IN now' = IF \E t \in timers : t.due < next
                 THEN CHOOSE d \in {t.due : t \in timers} :
                        \A t \in timers : d <= t.due
                 ELSE next
  /\ lastOp' = [kind |-> "tick"]
  /\ calls' = <<>>
  /\ UNCHANGED <<state, idleTimeoutMs, activeStateStartTime,
                 currentViewStartTime, currentView, machineId, metrics,
                 recorded, flushed, ops, isInitialized, pendingMetrics,
                 storage, writes, cycles, smState, exporterConfig, timers,
                 idleCheckInterval, lastCall, timeoutId,
                 invoked>>
  /\ GUnchanged

ITimer ==
  /\ \E t \in timers :
       /\ t.due <= now
       /\ Commit(timerFired(W, t))
  /\ lastOp' = [kind |-> "timer"]
  /\ UNCHANGED ops
  /\ GUnchanged

IEvent ==
  /\ Driven
  /\ \E type \in {"FOCUS", "BLUR", "ACTIVITY"} :
       /\ Commit(transition(W, [type |-> type]))
       /\ lastOp' = [kind |-> "event", type |-> type]
  /\ UNCHANGED ops
  /\ GUnchanged

\* starts: how many calls of startIdleCheck() came one after the other
IStartIdleCheck ==
  /\ ops < MaxOps
  /\ Commit(startIdleCheck(W))
  /\ lastOp' = [kind |-> "startIdleCheck",
                starts |-> IF lastOp.kind = "startIdleCheck"
                             THEN lastOp.starts + 1 ELSE 1]
  /\ ops' = ops + 1
  /\ GUnchanged

IStopIdleCheck ==
  /\ ops < MaxOps
  /\ Commit(stopIdleCheck(W))
  /\ lastOp' = [kind |-> "stopIdleCheck",
                starts |-> IF lastOp.kind = "startIdleCheck"
                             THEN lastOp.starts ELSE 0]
  /\ ops' = ops + 1
  /\ GUnchanged

NextI == ITick \/ ITimer \/ IEvent \/ IStartIdleCheck \/ IStopIdleCheck

SpecI == InitI /\ [][NextI]_vars

(* ------------------------------ throttle ------------------------------- *)
ACTIVITY_THROTTLE_MS == 1000

\* fn(...args) (invoked: history of the times of its invocations)
fn(w) == [w EXCEPT !.invoked = Append(@, w.now)]

\* the function throttle(fn, delay) returns, called
throttled(w, delay) ==
  LET timeSinceLastCall == w.now - w.lastCall
  IN IF timeSinceLastCall >= delay
       THEN fn([w EXCEPT !.lastCall = w.now])
       ELSE IF w.timeoutId = nullHandle
         THEN LET h == nextHandle(w)
              IN [w EXCEPT
                    !.timers = @ \cup
                       {[id |-> h, started |-> w.now,
                         due |-> w.now + (delay - timeSinceLastCall)]},
                    !.timeoutId = h]
         ELSE w

\* the callback of the timeout t
timeoutFired(w, t) ==
  fn([w EXCEPT !.timers = @ \ {t}, !.lastCall = w.now,
               !.timeoutId = nullHandle])

(* ------------- specification: a throttled function --------------------- *)
\* time in milliseconds, from a time at which Date.now() is beyond the
\* delay; a timeout fires when it is due or later, as the browser finds time
ThrottleQuantum == ACTIVITY_THROTTLE_MS \div 4
ThrottleHorizon == (MaxTime + 1) * ACTIVITY_THROTTLE_MS

InitT ==
  /\ state = [currentState |-> "unfocused", lastActivityTime |-> 0,
              lastStateChangeTime |-> 0, currentRoute |-> nullRoute]
  /\ idleTimeoutMs = IDLE_TIMEOUT_MS
  /\ activeStateStartTime = nullTime
  /\ currentViewStartTime = nullTime
  /\ currentView = null
  /\ machineId = "machine-1"
  /\ metrics = <<>>
  /\ now = ACTIVITY_THROTTLE_MS
  /\ calls = <<>>
  /\ recorded = <<>>
  /\ flushed = <<>>
  /\ lastOp = [kind |-> "init"]
  /\ enteredActiveAt = nullTime
  /\ periods = <<>>
  /\ routelessExit = FALSE
  /\ activityAt = nullTime
  /\ ops = 0
  /\ isInitialized = TRUE
  /\ pendingMetrics = <<>>
  /\ storage = nullState
  /\ writes = <<>>
  /\ cycles = {}
  /\ xp = [pc |-> "idle"]
  /\ delivered = <<>>
  /\ made = 0
  /\ started = 0
  /\ crashes = 0
  /\ smState = nullState
  /\ exporterConfig = null
  /\ timers = {}
  /\ idleCheckInterval = nullHandle
  /\ lastCall = 0
  /\ timeoutId = nullHandle
  /\ invoked = <<>>

TTick ==
  /\ now < ThrottleHorizon
  /\ now' = now + ThrottleQuantum
  /\ lastOp' = [kind |-> "tick"]
  /\ calls' = <<>>
  /\ UNCHANGED <<state, idleTimeoutMs, activeStateStartTime,
                 currentViewStartTime, currentView, machineId, metrics,
                 recorded, flushed, ops, isInitialized, pendingMetrics,
                 storage, writes, cycles, smState, exporterConfig, timers,
                 idleCheckInterval, lastCall, timeoutId, invoked>>
  /\ GUnchanged

\* an event listener calls the throttled function
TCall ==
  /\ ops < MaxOps
  /\ Commit(throttled(W, ACTIVITY_THROTTLE_MS))
  /\ lastOp' = [kind |-> "call", pending |-> timeoutId # nullHandle,
                ran |-> Len(invoked') > Len(invoked)]
  /\ ops' = ops + 1
  /\ GUnchanged

TTimeout ==
  /\ \E t \in timers :
       /\ t.due <= now
       /\ Commit(timeoutFired(W, t))
  /\ lastOp' = [kind |-> "timeout"]
  /\ UNCHANGED ops
  /\ GUnchanged

NextT == TTick \/ TCall \/ TTimeout

SpecT == InitT /\ [][NextT]_vars

(* ------------------------------ properties ----------------------------- *)
IsTransition == lastOp'.kind = "transition"

\* the records the operation handed to addMetric
Added == SubSeq(recorded', Len(recorded) + 1, Len(recorded'))

IsActiveTime(r) == r.name = "vibe_kanban.active_time.duration_ms"

ActiveTimeOf(s) == SelectSeq(s, IsActiveTime)

LeavesActive ==
  IsTransition /\ state.currentState = "active" /\ state'.currentState # "active"

\* C1: a transition() call invokes the observer exactly once, with (previous
\* state, next state, context after the call), when the call changes
\* currentState, and not at all otherwise; NAVIGATE never invokes it.
C1_ObserverIffStateChange ==
  [][IsTransition =>
       /\ calls' = IF state'.currentState # state.currentState
                     THEN <<[prev |-> state.currentState,
                             next |-> state'.currentState,
                             context |-> state']>>
                     ELSE <<>>
       /\ (lastOp'.type = "NAVIGATE" => calls' = <<>>)]_vars

C1_Witness ==
  /\ lastOp.kind = "transition"
  /\ Len(calls) = 1
  /\ calls[1].prev = "idle"
  /\ calls[1].context.currentRoute # nullRoute

\* C2: the effect of transition() on (currentState, lastActivityTime) is the
\* transition table; pairs outside the table change neither.  IDLE_TIMEOUT in
\* active is C3's.
C2_TransitionTable ==
  [][IsTransition /\ ~(lastOp'.type = "IDLE_TIMEOUT" /\ state.currentState = "active") =>
       LET s == state.currentState
           e == lastOp'.type
       IN /\ state'.currentState =
               CASE s = "unfocused" /\ e = "FOCUS" -> "active"
                 [] s = "active" /\ e = "BLUR" -> "unfocused"
                 [] s = "idle" /\ e = "BLUR" -> "unfocused"
                 [] s = "idle" /\ e = "ACTIVITY" -> "active"
                 [] OTHER -> s
          /\ state'.lastActivityTime =
               IF \/ (s = "unfocused" /\ e = "FOCUS")
                  \/ (s = "idle" /\ e = "ACTIVITY")
                  \/ (s = "active" /\ e = "ACTIVITY")
                 THEN now
                 ELSE state.lastActivityTime]_vars

\* ACTIVITY in active: the state stays, lastActivityTime moves to now
C2_Witness ==
  /\ lastOp.kind = "transition"
  /\ lastOp.type = "ACTIVITY"
  /\ state.currentState = "active"
  /\ state.lastActivityTime = now
  /\ state.lastStateChangeTime < now

\* C3: IDLE_TIMEOUT in active leads to idle iff now - lastActivityTime has
\* reached the timeout, and the machine never becomes idle less than a full
\* timeout after an ACTIVITY event it received in active.
C3_IdleIffTimeoutElapsed ==
  /\ [][IsTransition /\ lastOp'.type = "IDLE_TIMEOUT"
          /\ state.currentState = "active" =>
          /\ state'.currentState \in {"active", "idle"}
          /\ (state'.currentState = "idle"
                <=> now - state.lastActivityTime >= idleTimeoutMs)]_vars
  /\ [][state.currentState = "active" /\ state'.currentState = "idle"
          /\ activityAt # nullTime =>
          now' - activityAt >= idleTimeoutMs]_vars

\* idle reached a full timeout after an ACTIVITY that came later than the
\* entry into active
C3_Witness ==
  /\ lastOp.kind = "transition"
  /\ lastOp.type = "IDLE_TIMEOUT"
  /\ state.currentState = "idle"
  /\ activityAt > enteredActiveAt
  /\ now - activityAt = idleTimeoutMs
  /\ state.lastStateChangeTime = now

\* C4: leaving active with a route present appends exactly one active-time
\* record, of value (now - time of the latest entry into active), with the
\* attributes of the route stored at the moment of leaving.
C4_ActiveTimeOnLeave ==
  [][LeavesActive /\ state'.currentRoute # nullRoute =>
       /\ metrics' = metrics \o Added
       /\ ActiveTimeOf(Added) =
            <<[name |-> "vibe_kanban.active_time.duration_ms",
               type |-> "gauge",
               value |-> now' - enteredActiveAt,
               timestamp |-> now',
               attributes |->
                 buildRouteAttributes(state'.currentRoute, machineId)]>>]_vars

\* a NAVIGATION message changed the route from task_detail to task_board in
\* the middle of the active period (it closed the diffs view session then),
\* and the record made on BLUR carries task_board
C4_Witness ==
  /\ lastOp.kind = "transition"
  /\ lastOp.type = "BLUR"
  /\ Len(periods) = 1
  /\ periods[1].end = now
  /\ state.lastActivityTime > periods[1].start
  /\ Len(metrics) = 2
  /\ metrics[1].name = "vibe_kanban.view.duration_ms"
  /\ metrics[1].attributes.route_type = "task_detail"
  /\ metrics[1].timestamp > periods[1].start
  /\ metrics[1].timestamp < periods[1].end
  /\ IsActiveTime(metrics[2])
  /\ metrics[2].value = periods[1].end - periods[1].start
  /\ metrics[2].attributes.route_type = "task_board"

\* C5: leaving active with no route appends nothing and clears the open
\* active-session marker; an active-time record appended after such a
\* dropped period measures its own period only.
C5_RoutelessLeaveDropsPeriod ==
  /\ [][LeavesActive /\ state'.currentRoute = nullRoute =>
          /\ metrics' = metrics
          /\ Added = <<>>
          /\ activeStateStartTime' = nullTime]_vars
  /\ [][LeavesActive /\ routelessExit =>
          \A i \in 1..Len(Added) :
             IsActiveTime(Added[i]) =>
               Added[i].value = now' - enteredActiveAt']_vars

\* a period was dropped, and a later, shorter one has been recorded
C5_Witness ==
  /\ routelessExit
  /\ Len(periods) = 2
  /\ periods[1].end > periods[1].start
  /\ periods[2].end = now
  /\ lastOp.kind = "transition"
  /\ Len(metrics) = 1
  /\ IsActiveTime(metrics[1])
  /\ metrics[1].value = periods[2].end - periods[2].start
  /\ metrics[1].value > 0

\* C6: with a route present at every exit from active, the active-time
\* records are, in order, the completed maximal active periods: as many
\* records as exits, each of the length of its own period.
C6_OneRecordPerActivePeriod ==
  ~routelessExit =>
    LET at == ActiveTimeOf(recorded)
    IN /\ Len(at) = Len(periods)
       /\ \A i \in 1..Len(at) :
            /\ at[i].value = periods[i].end - periods[i].start
            /\ at[i].timestamp = periods[i].end

\* active -> idle -> active -> unfocused, with time spent in idle
C6_Witness ==
  /\ ~routelessExit
  /\ Len(periods) = 2
  /\ periods[1].to = "idle"
  /\ periods[2].to = "unfocused"
  /\ periods[2].start > periods[1].end
  /\ Len(ActiveTimeOf(metrics)) = 2

\* C7: the queue never holds more than maxQueueSize records.
C7_QueueBounded == Len(metrics) <= maxQueueSize

\* a batch larger than the bound was restored
C7_Witness ==
  /\ lastOp.kind = "restore"
  /\ Len(lastOp.batch) > maxQueueSize
  /\ Len(metrics) = maxQueueSize

\* C8: recording into a full queue drops from the front and keeps the rest
\* in order; after more than maxQueueSize appends since the last flush the
\* queue is the last maxQueueSize records appended, in append order.
C8_OverflowDropsOldest ==
  /\ [][lastOp'.kind = "record" /\ Len(metrics) = maxQueueSize =>
          /\ Len(metrics') = maxQueueSize
          /\ metrics' = SubSeq(metrics, Len(Added) + 1, maxQueueSize) \o Added]_vars
  /\ [](Len(recorded) > maxQueueSize =>
          metrics = SubSeq(recorded, Len(recorded) - maxQueueSize + 1,
                           Len(recorded)))

C8_Witness ==
  /\ lastOp.kind = "record"
  /\ lastOp.after = "record"
  /\ Len(recorded) > maxQueueSize
  /\ Len(metrics) = maxQueueSize
  /\ metrics[1] # recorded[1]
  /\ metrics[maxQueueSize] = recorded[Len(recorded)]

\* C9: flush() returns the queue as it was, in order, and empties it; a
\* flush right after a flush returns the empty sequence.
C9_FlushReturnsQueue ==
  /\ [][lastOp'.kind = "flush" =>
          /\ flushed' = metrics
          /\ metrics' = <<>>]_vars
  /\ [][lastOp.kind = "flush" /\ lastOp'.kind = "flush" =>
          flushed' = <<>>]_vars

\* a second flush, right after one that returned records
C9_Witness ==
  /\ lastOp.kind = "flush"
  /\ lastOp.after = "flush"
  /\ flushed = <<>>
  /\ metrics = <<>>
  /\ ops >= 3

\* C10: restore(R) on a queue Q, within the bound, leaves R followed by Q,
\* every record as it was; a record made after the restore goes to the end.
C10_RestorePrepends ==
  /\ [][lastOp'.kind = "restore"
          /\ Len(lastOp'.batch) + Len(metrics) <= maxQueueSize =>
          metrics' = lastOp'.batch \o metrics]_vars
  /\ [][lastOp.kind = "restore" /\ lastOp'.kind = "record"
          /\ Len(metrics) + Len(Added) <= maxQueueSize =>
          metrics' = metrics \o Added]_vars

\* restore([A,B]) on a non-empty queue, then a record: [A,B,...,C]
C10_Witness ==
  /\ lastOp.kind = "record"
  /\ lastOp.after = "restore"
  /\ Len(metrics) = 4
  /\ metrics[1] = Batch(2)[1]
  /\ metrics[2] = Batch(2)[2]
  /\ metrics[3].name = "vibe_kanban.human_intervention.count"
  /\ metrics[4].name = "vibe_kanban.characters_typed.count"

\* C11: restore(R) on a queue Q with more than 1000 records in all leaves
\* the last 1000 of R followed by Q: the front of R goes first, and a record
\* of Q goes only once every record of R has gone.
C11_RestoreTruncatesFront ==
  [][lastOp'.kind = "restore"
       /\ Len(lastOp'.batch) + Len(metrics) > maxQueueSize =>
       LET R == lastOp'.batch
           Q == metrics
           over == Len(R) + Len(Q) - maxQueueSize
       IN /\ Len(metrics') = maxQueueSize
          /\ over <= Len(R) => metrics' = SubSeq(R, over + 1, Len(R)) \o Q
          /\ over > Len(R) =>
               metrics' = SubSeq(Q, over - Len(R) + 1, Len(Q))]_vars

\* flush of a long queue, two records, then restore of the flushed batch:
\* the oldest restored record is gone, the two newer ones are at the end
C11_Witness ==
  /\ lastOp.kind = "restore"
  /\ Len(lastOp.batch) = maxQueueSize - Margin
  /\ Len(metrics) = maxQueueSize
  /\ metrics[1] = lastOp.batch[2]
  /\ metrics[maxQueueSize - 1].name = "vibe_kanban.scroll.count"
  /\ metrics[maxQueueSize].name = "vibe_kanban.scroll.distance_px"

(* properties of one export() call *)
XAttempts == SelectSeq(xp.log, IsAttempt)

\* fetch calls made so far
XFetches == Len(XAttempts) + (IF xp.pc = "fetching" THEN 1 ELSE 0)

Got2xx(e) ==
  /\ IsAttempt(e)
  /\ e.settlement.kind = "response"
  /\ e.settlement.status \in 200..299

\* a 4xx status other than 429
GotClientError(e) ==
  /\ IsAttempt(e)
  /\ e.settlement.kind = "response"
  /\ e.settlement.status \in (400..499) \ {429}

\* a 429, a 5xx or a transport exception
GotTransient(e) ==
  /\ IsAttempt(e)
  /\ \/ e.settlement.kind = "error"
     \/ /\ e.settlement.kind = "response"
        /\ e.settlement.status \in {429} \cup (500..599)

\* C13: export() makes at most three attempts, none for an empty batch, which
\* returns true; it returns true exactly when an attempt got a 2xx, makes no
\* attempt after a 2xx, and returns false once three attempts have failed.
C13_AtMostThreeAttempts ==
  xp.pc # "idle" =>
    /\ XFetches <= 3
    /\ Len(xp.batch) = 0 =>
         xp.pc = "returned" /\ xp.result = TRUE /\ XFetches = 0
    /\ xp.pc = "returned" =>
         (xp.result = TRUE <=>
            \/ Len(xp.batch) = 0
            \/ \E i \in DOMAIN xp.log : Got2xx(xp.log[i]))
    /\ \A i \in DOMAIN xp.log :
         Got2xx(xp.log[i]) => i = Len(xp.log) /\ xp.pc = "returned"
    /\ (Len(XAttempts) = 3 /\ \A i \in DOMAIN xp.log : ~Got2xx(xp.log[i])) =>
         xp.pc = "returned" /\ xp.result = FALSE

\* three attempts, each answered by a 503: false; and the empty batch is
\* the other case, reached by the same specification
C13_Witness ==
  /\ xp.pc = "returned"
  /\ xp.result = FALSE
  /\ Len(XAttempts) = 3
  /\ \A i \in 1..3 : XAttempts[i].settlement = [kind |-> "response",
                                                status |-> 503]

\* C14: a 4xx other than 429 ends export() at once with false: no further
\* attempt, no backoff; a 429 is retried like a 5xx or a transport exception.
C14_ClientErrorNotRetried ==
  xp.pc # "idle" =>
    /\ \A i \in DOMAIN xp.log :
         GotClientError(xp.log[i]) =>
           i = Len(xp.log) /\ xp.pc = "returned" /\ xp.result = FALSE
    /\ \A i \in DOMAIN xp.log :
         GotTransient(xp.log[i]) =>
           IF xp.log[i].n < 2
             THEN /\ i < Len(xp.log)
                  /\ xp.log[i + 1].ev = "sleep"
                  /\ xp.pc = "returned" => i + 1 < Len(xp.log)
             ELSE xp.pc = "returned" /\ xp.result = FALSE

\* a 429 is followed by a wait and a second attempt, whose 404 ends the call
C14_Witness ==
  /\ xp.pc = "returned"
  /\ xp.result = FALSE
  /\ Len(xp.log) = 3
  /\ xp.log[1].settlement = [kind |-> "response", status |-> 429]
  /\ xp.log[2].ev = "sleep"
  /\ xp.log[3].settlement = [kind |-> "response", status |-> 404]

Range(f) == {f[i] : i \in DOMAIN f}

\* the invocation of exportMetrics that the step has started
StartedCycle == CHOOSE c \in cycles' : c.id = started'

\* C12: the queue is always in recording order, also after the restores
\* that follow failed export cycles started by the export timer.
C12_QueueInRecordingOrder ==
  \A i, j \in DOMAIN metrics :
    i < j => metrics[i].value < metrics[j].value

\* C16: a drained batch is persisted before its delivery begins; startup
\* restores the persisted pending list before any export cycle runs; after
\* a death during a delivery the next startup's queue is exactly the batch
\* that was being delivered, and the first cycle after startup takes it.
C16_BatchPersistedThenRetried ==
  [][/\ \A c \in cycles' :
          (c.pc = "exporting" /\ c \notin cycles) =>
            storage'.pendingMetrics = c.metrics
     /\ lastOp'.kind = "initialize" =>
          /\ metrics' = storage.pendingMetrics
          /\ cycles' = {}
          /\ started' = started
     /\ (lastOp.kind = "load" /\ crashes > 0 /\ lastOp'.kind = "initialize") =>
          \A batch \in lastOp.delivering : metrics' = batch
     /\ (lastOp.kind = "initialize" /\ lastOp'.kind = "exportMetrics") =>
          StartedCycle.metrics = storage.pendingMetrics]_vars

\* C17: when export() returns true the pending list is emptied, in memory
\* at once and in the store when the write completes; the queue, which
\* holds the records made during the export, is left as it is.
C17_SuccessClearsPending ==
  /\ [][(lastOp'.kind = "exportReturned" /\ lastOp'.success) =>
          /\ pendingMetrics' = <<>>
          /\ writes' = Append(writes, [cycle |-> lastOp'.cycle,
                                       pendingMetrics |-> <<>>])
          /\ metrics' = metrics]_vars
  /\ [][(lastOp'.kind = "setCompleted"
           /\ \E c \in cycles : c.id = lastOp'.cycle /\ c.pc = "clearing") =>
          /\ storage'.pendingMetrics = <<>>
          /\ metrics' = metrics]_vars

\* the batch [1] has been delivered while 2 and 3 were recorded
C17_Witness ==
  /\ lastOp.kind = "exportReturned"
  /\ lastOp.success
  /\ Values(lastOp.batch) = <<1>>
  /\ Values(metrics) = <<2, 3>>
  /\ pendingMetrics = <<>>
  /\ delivered = <<1>>

C19_NothingLostAcrossRestart ==
  [][lastOp'.kind = "initialize" =>
       \A v \in 1..made :
         v \in Range(delivered) \/ v \in Range(Values(metrics'))]_vars

\* C20: no record is part of more than one delivery that got a 2xx.
C20_DeliveredAtMostOnce ==
  \A i, j \in DOMAIN delivered :
    i # j => delivered[i] # delivered[j]

(* properties of the message listener *)
\* C21: when one message carries a state-changing event and a route, the
\* observer called for the message's transition sees the message's route.
C21_ObserverSeesMessageRoute ==
  [][(lastOp'.kind = "message" /\ lastOp'.message.route # nullRoute) =>
       \A i \in DOMAIN calls' :
         calls'[i].context.currentRoute = lastOp'.message.route]_vars

(* properties of the configuration at run time *)
\* a SAVE_CONFIG that carried the field has just succeeded
Saved(field) ==
  /\ lastOp.kind = "saveConfigSettled"
  /\ lastOp.success
  /\ field \in DOMAIN lastOp.config

\* C22: after a successful SAVE_CONFIG that changes the endpoint, the next
\* export attempt goes to the new endpoint.
C22_NextExportUsesNewEndpoint ==
  [][(Saved("otelEndpoint") /\ lastOp'.kind = "fetch") =>
       lastOp'.endpoint = lastOp.config.otelEndpoint]_vars

\* C23: after a successful SAVE_CONFIG that changes the idle timeout, the
\* next idle evaluation compares the inactivity with the new timeout.
C23_NextIdleCheckUsesNewTimeout ==
  [][(Saved("idleTimeoutMs") /\ lastOp'.kind = "idleCheck"
        /\ state.currentState = "active") =>
       (state'.currentState = "idle" <=>
          now - state.lastActivityTime >= lastOp.config.idleTimeoutMs)]_vars

\* C24: after a successful SAVE_CONFIG with enabled = false a message of
\* the content script appends no record.
C24_DisabledRecordsNothing ==
  [][(Saved("enabled") /\ lastOp.config.enabled = FALSE
        /\ lastOp'.kind = "message") =>
       metrics' = metrics]_vars

\* every record a message appends carries the runtime machine id; the
\* records queued before are as they were, and the id is as it was
RecordsCarryRuntimeId ==
  lastOp'.kind = "message" =>
    /\ machineId' = machineId
    /\ Len(metrics') >= Len(metrics)
    /\ SubSeq(metrics', 1, Len(metrics)) = metrics
    /\ \A i \in (Len(metrics) + 1)..Len(metrics') :
         metrics'[i].attributes.machine_id = machineId

\* C25: a successful SAVE_CONFIG that carries a machine id makes
\* it the id of every record made afterwards; the queued records keep theirs.
C25_NewMachineIdOnNewRecords ==
  [][/\ RecordsCarryRuntimeId
     /\ (lastOp'.kind = "saveConfigSettled" /\ lastOp'.success
           /\ "machineId" \in DOMAIN lastOp'.config) =>
          machineId' = lastOp'.config.machineId /\ metrics' = metrics]_vars

\* C26: when the write of saveConfig fails, getConfig() afterwards returns
\* the configuration in force before the call, and the runtime machine id
\* is unchanged.
C26_FailedSaveChangesNothing ==
  [][(lastOp'.kind = "saveConfigSettled" /\ ~lastOp'.success) =>
       /\ smState'.config = lastOp'.before
       /\ machineId' = machineId]_vars

(* properties of loading the stored state *)
Loaded(op) == op.kind \in {"initialize", "GET_CONFIG"}

\* C27: when the read of the store fails, load() ends with a default state
\* in memory and leaves the store alone, and a startup that meets the
\* failure still completes initialized, configured with the defaults.
C27_ReadFailureYieldsDefaults ==
  [][(Loaded(lastOp') /\ ~lastOp'.io.get) =>
       /\ smState' = getDefaultState(GeneratedIds[1], now)
       /\ storage' = storage
       /\ lastOp'.kind = "initialize" =>
            /\ isInitialized'
            /\ machineId' = GeneratedIds[1]
            /\ idleTimeoutMs' = IDLE_TIMEOUT_MS
            /\ exporterConfig'.endpoint = OTEL_ENDPOINT
            /\ metrics' = <<>>
            /\ idleCheckInterval' # nullHandle]_vars

\* the read failed at startup on a store that holds a configuration of its
\* own and pending metrics
C27_Witness ==
  /\ lastOp.kind = "initialize"
  /\ ~lastOp.io.get
  /\ lastOp.stored # nullState
  /\ lastOp.stored.config.idleTimeoutMs # IDLE_TIMEOUT_MS
  /\ Len(lastOp.stored.pendingMetrics) > 0
  /\ isInitialized
  /\ smState.config.machineId = GeneratedIds[1]

\* C28: load() on stored data of a lower version ends with a state of the
\* current version whose configuration fields and pending list are the
\* stored ones, the new field defaulted, and the store holds that state.
C28_MigrationKeepsStoredValues ==
  [][(Loaded(lastOp') /\ lastOp'.io.get /\ storage # nullState
        /\ storage.version < STORAGE_VERSION) =>
       /\ smState'.version = STORAGE_VERSION
       /\ \A f \in DOMAIN storage.config :
            smState'.config[f] = storage.config[f]
       /\ smState'.config.sidebarOpen = FALSE
       /\ smState'.pendingMetrics = storage.pendingMetrics
       /\ lastOp'.io.set => storage' = smState']_vars

C30_OneIdleCheckTimer ==
  [][/\ Cardinality(timers') <= 1
     /\ (idleCheckInterval' = nullHandle) <=> (timers' = {})
     /\ lastOp'.kind = "startIdleCheck" =>
          /\ Cardinality(timers') = 1
          /\ timers # {} => timers' = timers
          /\ state' = state
     /\ lastOp'.kind = "stopIdleCheck" =>
          /\ timers' = {}
          /\ state' = state
          /\ timers = {} => idleCheckInterval' = idleCheckInterval
     /\ (timers = {} /\ state.currentState = "active"
           /\ lastOp'.kind # "event") =>
          state'.currentState = "active"]_vars

\* startIdleCheck() was called twice in a row, then stopIdleCheck() once:
\* no timer is left and the state stays active
C30_Witness ==
  /\ lastOp.kind = "stopIdleCheck"
  /\ lastOp.starts >= 2
  /\ timers = {}
  /\ idleCheckInterval = nullHandle
  /\ state.currentState = "active"

(* further properties of the state machine and the callback *)
\* C31: a transition() call sets lastStateChangeTime to the current time
\* when it changes currentState, and leaves it as it was otherwise (no-op
\* events and every NAVIGATE).
C31_ChangeTimeOnlyOnChange ==
  [][IsTransition =>
       /\ state'.lastStateChangeTime =
            IF state'.currentState # state.currentState
              THEN now ELSE state.lastStateChangeTime
       /\ lastOp'.type = "NAVIGATE" =>
            state'.lastStateChangeTime = state.lastStateChangeTime]_vars

\* FOCUS in the active state, later than the last change of state
C31_Witness ==
  /\ lastOp.kind = "transition"
  /\ lastOp.type = "FOCUS"
  /\ state.currentState = "active"
  /\ state.lastStateChangeTime < now

\* C32: NAVIGATE replaces currentRoute by its route and leaves the rest of
\* the context; every other event leaves currentRoute; a route once set is
\* never absent again.
C32_RouteOnlyByNavigate ==
  [][/\ (IsTransition /\ lastOp'.type = "NAVIGATE") =>
          state' = [state EXCEPT !.currentRoute = lastOp'.route]
     /\ (IsTransition /\ lastOp'.type # "NAVIGATE") =>
          state'.currentRoute = state.currentRoute
     /\ state.currentRoute # nullRoute => state'.currentRoute # nullRoute]_vars

\* the state changed by BLUR after a navigation, and the route is still the
\* navigated one
C32_Witness ==
  /\ lastOp.kind = "transition"
  /\ lastOp.type = "BLUR"
  /\ Len(calls) = 1
  /\ state.currentRoute = taskBoard
  /\ state.currentState = "unfocused"

IsViewDuration(r) == r.name = "vibe_kanban.view.duration_ms"

ViewDurationOf(s) == SelectSeq(s, IsViewDuration)

SessionOpen == currentViewStartTime # nullTime /\ currentView # null

\* C33: at every notification of the observer, whatever the states, an
\* open view session with a route present is closed by one view-duration
\* record of value now - session start and of the session's view; without
\* an open session no view-duration record is made.
C33_StateChangeClosesView ==
  [][(IsTransition /\ calls' # <<>>) =>
       /\ (SessionOpen /\ state'.currentRoute # nullRoute) =>
            /\ Len(ViewDurationOf(Added)) = 1
            /\ ViewDurationOf(Added)[1].value = now - currentViewStartTime
            /\ ViewDurationOf(Added)[1].attributes.view = currentView
            /\ ~SessionOpen'
       /\ ~SessionOpen => ViewDurationOf(Added) = <<>>]_vars

\* a change of state that does not involve the active state has closed a
\* view session that lasted
C33_Witness ==
  /\ lastOp.kind = "transition"
  /\ Len(calls) = 1
  /\ calls[1].prev = "idle"
  /\ calls[1].next = "unfocused"
  /\ Len(metrics) > 0
  /\ IsViewDuration(metrics[Len(metrics)])
  /\ metrics[Len(metrics)].value > 0
  /\ ~SessionOpen

\* C34: a NAVIGATION message that finds a view session open appends one
\* view-duration record, attributed with the route before the navigation
\* and the outgoing view; afterwards a view session is open exactly when
\* the new route's view is diffs or preview, started at the navigation.
C34_NavigationClosesOutgoingView ==
  [][lastOp'.kind = "NAVIGATION" =>
       /\ SessionOpen =>
            /\ Len(Added) = 1
            /\ IsViewDuration(Added[1])
            /\ Added[1].value = now - currentViewStartTime
            /\ Added[1].attributes.view = currentView
            /\ \A k \in DOMAIN Added[1].attributes \ {"view"} :
                 /\ k \in DOMAIN buildRouteAttributes(state.currentRoute,
                                                      machineId)
                 /\ Added[1].attributes[k] =
                      buildRouteAttributes(state.currentRoute, machineId)[k]
            /\ \A k \in DOMAIN buildRouteAttributes(state.currentRoute,
                                                    machineId) :
                 k \in DOMAIN Added[1].attributes
       /\ SessionOpen' <=> lastOp'.route.view \in {"diffs", "preview"}
       /\ SessionOpen' =>
            /\ currentViewStartTime' = now
            /\ currentView' = lastOp'.route.view]_vars

\* the navigation from the task with its diffs to the board has closed a
\* view session that lasted, under the task's route
C34_Witness ==
  /\ lastOp.kind = "NAVIGATION"
  /\ lastOp.route = taskBoard
  /\ Len(metrics) > 0
  /\ IsViewDuration(metrics[Len(metrics)])
  /\ metrics[Len(metrics)].value > 0
  /\ metrics[Len(metrics)].attributes.route_type = "task_detail"
  /\ metrics[Len(metrics)].timestamp = now
  /\ ~SessionOpen

\* C38: in every reachable state the start marker of the active session
\* is set exactly when currentState is active, with or without a route.
C38_MarkerIffActive ==
  (activeStateStartTime # nullTime) <=> (state.currentState = "active")

\* the active state was left for idle with no route present: the marker is
\* cleared although no record was made
C38_Witness ==
  /\ lastOp.kind = "transition"
  /\ lastOp.type = "IDLE_TIMEOUT"
  /\ Len(calls) = 1
  /\ state.currentState = "idle"
  /\ state.currentRoute = nullRoute
  /\ activeStateStartTime = nullTime
  /\ metrics = <<>>

(* further properties of the message listener *)
\* C39: when every FOCUS message carries a route, after every handled
\* message and every firing of the idle check a machine that is active or
\* idle has a route, and every leave of the active state makes its
\* active-time record.
C39_RoutePresentWhenFocused ==
  [][/\ state'.currentState \in {"active", "idle"} =>
          state'.currentRoute # nullRoute
     /\ (state.currentState = "active" /\ state'.currentState # "active") =>
          /\ Len(ActiveTimeOf(Added)) = 1
          /\ ActiveTimeOf(Added)[1].value = now - activeStateStartTime]_vars

\* the state was made active by a FOCUS message, whose observer saw no
\* route, and the idle check has ended that active period with a record
C39_Witness ==
  /\ lastOp.kind = "idleCheck"
  /\ state.currentState = "idle"
  /\ state.currentRoute = taskBoard
  /\ state.lastActivityTime = 0
  /\ Len(metrics) = 1
  /\ IsActiveTime(metrics[1])
  /\ metrics[1].value = now

(* further properties of the export cycles *)
\* C35: when the store rejects the write that persists or clears the
\* pending list of an export cycle, every record of the cycle's batch has
\* been delivered or is in the queue again.
C35_RejectedWriteLosesNothing ==
  [][lastOp'.kind = "setRejected" =>
       \A v \in Range(Values(lastOp'.batch)) :
         v \in Range(delivered') \/ v \in Range(Values(metrics'))]_vars

\* C36: while the batch of an export cycle is in flight, persisted and
\* with no outcome of its export yet, the persisted pending list holds it.
C36_InFlightBatchStaysPersisted ==
  \A c \in cycles :
    c.pc = "exporting" =>
      \A r \in Range(c.metrics) : r \in Range(storage.pendingMetrics)

(* further properties of the stored state *)
\* C37: after a failed read of the store in a later load(), no save
\* replaces the persisted configuration or pending list by defaults: a
\* SAVE_CONFIG that succeeds changes the fields it carries and no other.
C37_SaveKeepsPersistedConfig ==
  [][(lastOp'.kind = "saveConfigSettled" /\ lastOp'.success) =>
       /\ \A f \in DOMAIN storage.config \ DOMAIN lastOp'.config :
            storage'.config[f] = storage.config[f]
       /\ storage'.pendingMetrics = storage.pendingMetrics]_vars

(* properties of throttle *)
\* C40: any two consecutive invocations of a function throttled with a
\* positive delay are at least the delay apart, and a call never invokes
\* the function while a trailing invocation is pending.
C40_InvocationsDelayApart ==
  /\ \A i \in 1..(Len(invoked) - 1) :
       invoked[i + 1] - invoked[i] >= ACTIVITY_THROTTLE_MS
  /\ (lastOp.kind = "call" /\ lastOp.pending) => ~lastOp.ran

====
